---------------------------- MODULE Spec2Model ----------------------------
(***************************************************************************)
(* A model of auto_print_pdfs.py: the PDF sniffer is_pdf, the command that *)
(* print_pdf builds, and the polling loop of watch_folder together with    *)
(* the file system it reads, the lp child process it waits for and the     *)
(* SIGINT handler it installs.                                             *)
(*                                                                         *)
(* File names are sequences of one-character strings, so that lower() and  *)
(* endswith() are computed; file contents are sequences of bytes.          *)
(***************************************************************************)
EXTENDS Integers, Sequences, FiniteSets, TLC

VARIABLES
    fs,             \* the watched folder: name -> file state (the environment)
    pc,             \* where watch_folder stands
    todo,           \* names of the os.listdir result the for loop has not reached yet
    name,           \* the loop variable `name` (NoName outside an iteration)
    mtime,          \* the local `mtime` read at line 143 (0 outside an iteration)
    printed_files,  \* the dict printed_files: path -> recorded mtime
    cmd,            \* argv of the lp command print_pdf is waiting for (<<>>: none)
    opts,           \* printer and print options, fixed at start-up
    timer,          \* the argument of the time.sleep call in progress (0: not sleeping)
    sigint,         \* TRUE once the SIGINT handler has run
    cycleSubs,      \* history: print_pdf was called in the current cycle
    attempts,       \* history: (mtime, result) of each print_pdf call (SpecHistory only)
    cycles,         \* history: number of scans started (SpecHistory only)
    arg,            \* input of the pure-function specifications
    out             \* their output

vars == <<fs, pc, todo, name, mtime, printed_files, cmd, opts, timer, sigint,
          cycleSubs, attempts, cycles, arg, out>>

-----------------------------------------------------------------------------
(* Bounds *)

\* modification times are 1..MaxTime
MaxTime == 2
\* copy counts are 1..MaxCopies
MaxCopies == 3
\* file names given to is_pdf have at most MaxNameLen characters
MaxNameLen == 4
\* file contents given to is_pdf have at most MaxData bytes
MaxData == 6
\* print_pdf calls recorded by SpecHistory
MaxAttempts == 3
\* scans counted by SpecHistory
MaxCycles == 4

-----------------------------------------------------------------------------
(* Strings *)

Chars == <<"a", "b", "c", "d", "e", "f", "g", "h", "i", "j", "k", "l", "m",
           "n", "o", "p", "q", "r", "s", "t", "u", "v", "w", "x", "y", "z">>
Upper == <<"A", "B", "C", "D", "E", "F", "G", "H", "I", "J", "K", "L", "M",
           "N", "O", "P", "Q", "R", "S", "T", "U", "V", "W", "X", "Y", "Z">>

\* str.lower() on one character
LowerChar(c) ==
    IF \E i \in 1..Len(Upper) : Upper[i] = c
    THEN Chars[CHOOSE i \in 1..Len(Upper) : Upper[i] = c]
    ELSE c

\* str.lower()
lower(s) == [i \in 1..Len(s) |-> LowerChar(s[i])]

\* str.endswith(suffix)
endswith(s, suffix) ==
    /\ Len(s) >= Len(suffix)
    /\ SubSeq(s, Len(s) - Len(suffix) + 1, Len(s)) = suffix

\* the characters of s as one string
RECURSIVE ToStr(_)
ToStr(s) == IF s = <<>> THEN "" ELSE s[1] \o ToStr(Tail(s))

Digits == <<"0", "1", "2", "3", "4", "5", "6", "7", "8", "9">>

\* str(n) for n >= 0
RECURSIVE str(_)
str(n) == IF n < 10 THEN Digits[n + 1] ELSE str(n \div 10) \o Digits[(n % 10) + 1]

-----------------------------------------------------------------------------
(* Exceptions *)

\* the builtin exception hierarchy, as far as the program meets it
Parent(cls) ==
    CASE cls = "FileNotFoundError" -> "OSError"
      [] cls = "IsADirectoryError" -> "OSError"
      [] cls = "PermissionError" -> "OSError"
      [] cls = "CalledProcessError" -> "Exception"
      [] cls = "OSError" -> "Exception"
      [] cls = "Exception" -> "BaseException"
      [] cls = "SystemExit" -> "BaseException"
      [] OTHER -> "object"

RECURSIVE IsInstance(_, _)
IsInstance(exc, cls) ==
    \/ exc = cls
    \/ exc \notin {"BaseException", "object"} /\ IsInstance(Parent(exc), cls)

NoExc == "none"

-----------------------------------------------------------------------------
(* The file system *)

NoFile == [kind |-> "none", data |-> <<>>, mtime |-> 0]

\* open(path, "rb"): the exception it raises, or NoExc
OpenExc(f) ==
    CASE f.kind = "none" -> "FileNotFoundError"
      [] f.kind = "dir" -> "IsADirectoryError"
      [] f.kind = "noperm" -> "PermissionError"
      [] OTHER -> NoExc

\* f.read(n): at most n bytes
Read(f, n) == SubSeq(f.data, 1, IF Len(f.data) < n THEN Len(f.data) ELSE n)

\* os.path.isfile(path): a regular file; never raises
isfile(f) == f.kind \in {"file", "noperm"}

\* os.path.getmtime(path): the exception it raises, or NoExc
GetmtimeExc(f) == IF f.kind = "none" THEN "FileNotFoundError" ELSE NoExc

-----------------------------------------------------------------------------
(* is_pdf *)

PDF_MAGIC == <<"%", "P", "D", "F", "-">>

DotPdf == <<".", "p", "d", "f">>

\* the except clause of is_pdf
IsPdfCaught(exc) == IsInstance(exc, "Exception")

\* the suffix test without lower(): only an all-lower-case suffix passes
HasPdfSuffixExact(path) == endswith(path, DotPdf)

\* the suffix test of is_pdf
HasPdfSuffix(path) == endswith(lower(path), DotPdf)

\* one call of is_pdf: what it returns (ret), whether it opened the file, and
\* the exception that leaves it (NoExc: it returns)
is_pdf_call(path, f) ==
    IF ~HasPdfSuffix(path)
    THEN [ret |-> FALSE, opened |-> FALSE, raised |-> NoExc]
    ELSE IF OpenExc(f) # NoExc
         THEN IF IsPdfCaught(OpenExc(f))
              THEN [ret |-> FALSE, opened |-> TRUE, raised |-> NoExc]
              ELSE [ret |-> FALSE, opened |-> TRUE, raised |-> OpenExc(f)]
         ELSE [ret |-> Read(f, 5) = PDF_MAGIC, opened |-> TRUE, raised |-> NoExc]

is_pdf(path, f) == is_pdf_call(path, f).ret

-----------------------------------------------------------------------------
(* print_pdf: the command *)

\* Python's None for an option that may be absent; a present value v is <<v>>
None == <<>>

\* the copy-count flag without the test of line 101
CopiesArgsAlways(copies) == <<"-n", str(copies)>>

\* lines 101-102
CopiesArgs(copies) ==
    IF copies # 0 /\ copies # 1 THEN <<"-n", str(copies)>> ELSE <<>>

\* lines 103-104
PagesArgs(pages) == IF pages # "" THEN <<"-P", pages>> ELSE <<>>

\* lines 105-106
DuplexArgs(duplex) == IF duplex # None THEN <<"-o", "sides=" \o duplex[1]>> ELSE <<>>

\* lines 107-108
FitArgs(fit) == IF fit THEN <<"-o", "fit-to-page">> ELSE <<>>

\* lines 109-110
MediaArgs(media) == IF media # None THEN <<"-o", "media=" \o media[1]>> ELSE <<>>

\* lines 100-111: cmd
print_pdf_cmd(path, o) ==
    <<"lp", "-d", o.printer>>
        \o CopiesArgs(o.copies)
        \o PagesArgs(o.pages)
        \o DuplexArgs(o.duplex)
        \o FitArgs(o.fit)
        \o MediaArgs(o.media)
        \o <<ToStr(path)>>

\* the ways subprocess.run(cmd, check=True) ends: exit status 0, a nonzero
\* exit status (CalledProcessError), or lp could not be started (OSError)
RunOutcomes == {"ok", "nonzero", "launch"}

RunExc(outcome) ==
    CASE outcome = "nonzero" -> "CalledProcessError"
      [] outcome = "launch" -> "FileNotFoundError"
      [] OTHER -> NoExc

\* the except clauses of print_pdf
PrintCaught(exc) == IsInstance(exc, "CalledProcessError") \/ IsInstance(exc, "Exception")


-----------------------------------------------------------------------------
(* watch_folder: the folder and the options it is started with *)

SLEEP_SECS == 5

\* the folder passed to watch_folder
FOLDER == <<"/", "w">>

NameA == <<"a", ".", "p", "d", "f">>
NameB == <<"b", ".", "t", "x", "t">>
NameC == <<"C", ".", "P", "D", "F">>

\* the names the folder may hold
Names == {NameA, NameB, NameC}

NoName == <<>>

\* os.path.join(folder, name)
join(folder, n) == folder \o <<"/">> \o n

PathOf(n) == join(FOLDER, n)

\* two documents: one that starts with the magic bytes, one that does not
PdfDoc == PDF_MAGIC \o <<"1">>
JunkDoc == <<"h", "i">>

Times == 1..MaxTime

\* what the environment may put under a name. The scan reads nothing but
\* os.path.isfile of b.txt, so b.txt is only created and removed, always
\* holding a document that starts with the magic bytes
EnvStates(n) ==
    IF n = NameB
    THEN {NoFile, [kind |-> "file", data |-> PdfDoc, mtime |-> 1]}
    ELSE {NoFile, [kind |-> "dir", data |-> <<>>, mtime |-> 1]}
         \cup {[kind |-> "file", data |-> d, mtime |-> m] :
                  d \in {PdfDoc, JunkDoc}, m \in Times}

\* the options of the spec's end-to-end scenario, as get_print_options returns them
ScenarioOpts ==
    [printer |-> "HP", pages |-> "1-2", copies |-> 3,
     duplex |-> <<"two-sided-long-edge">>, fit |-> TRUE, media |-> <<"A4">>]

\* the folder of the spec's end-to-end scenario: a.pdf and b.txt
ScenarioFs ==
    [n \in Names |->
        IF n = NameA THEN [kind |-> "file", data |-> PdfDoc, mtime |-> 1]
        ELSE IF n = NameB THEN [kind |-> "file", data |-> PdfDoc, mtime |-> 1]
        ELSE NoFile]

EmptyDict == [p \in {} |-> 0]

NoArg == <<>>
NoOut == <<>>

\* the state when watch_folder reaches `while True` (lines 125-134)
InitWatch ==
    /\ pc = "scan"
    /\ todo = {}
    /\ name = NoName
    /\ mtime = 0
    /\ printed_files = EmptyDict
    /\ cmd = <<>>
    /\ timer = 0
    /\ sigint = FALSE
    /\ cycleSubs = FALSE
    /\ attempts = <<>>
    /\ cycles = 0
    /\ out = NoOut

Init ==
    /\ fs = ScenarioFs
    /\ opts = ScenarioOpts
    /\ arg = NoArg
    /\ InitWatch

-----------------------------------------------------------------------------
(* watch_folder: the loop *)

\* a bare except clause: it also catches SystemExit
ScanCaughtBare(exc) == IsInstance(exc, "BaseException")

\* the except clause of watch_folder (line 148)
ScanCaught(exc) == IsInstance(exc, "Exception")

\* the submit decision without the history
NeedsPrintAlways(path, m, history) == TRUE

\* the submit decision with <= for <
NeedsPrintOrEqual(path, m, history) ==
    path \notin DOMAIN history \/ history[path] <= m

\* the submit decision that never looks at the mtime again
NeedsPrintOnce(path, m, history) == path \notin DOMAIN history

\* line 144: the submit decision
NeedsPrint(path, m, history) ==
    path \notin DOMAIN history \/ history[path] < m

\* line 146: printed_files[path] = mtime
Record(history, path, m) ==
    [p \in DOMAIN history \cup {path} |-> IF p = path THEN m ELSE history[p]]

\* recording whatever print_pdf returned
AfterPrintAlways(history, path, m, ret) == Record(history, path, m)

\* recording the mtime the file has when print_pdf returns
AfterPrintLate(history, path, m, ret) ==
    IF ret THEN Record(history, path, fs[name].mtime) ELSE history

\* what the loop records after print_pdf returns ret (lines 145-146)
AfterPrint(history, path, m, ret) ==
    IF ret THEN Record(history, path, m) ELSE history

\* the argument of the sleep that ends a completed scan (line 147)
ScanSleep == SLEEP_SECS

\* no sleep after an aborted scan
ErrorSleepNone == SLEEP_SECS - SLEEP_SECS

\* the argument of the sleep that ends an aborted scan (line 150)
ErrorSleep == SLEEP_SECS

\* no except clause: the exception leaves watch_folder
HandledNowhere(exc) == "crashed"

\* where an exception raised inside the try of watch_folder leads
Handled(exc) == IF ScanCaught(exc) THEN "sleep_exc" ELSE "crashed"

\* the exception the SIGINT handler raises: sys.exit(0)
signal_handler_exc == "SystemExit"

histVars == <<attempts, cycles>>
pureVars == <<arg, out>>
fixedVars == <<opts, sigint>>

\* the for loop goes on to the next entry
Continue ==
    /\ pc' = "loop"
    /\ name' = NoName
    /\ mtime' = 0
    /\ cmd' = <<>>

\* an exception reaches the except clause of watch_folder, or leaves it
Abort(exc) ==
    /\ pc' = Handled(exc)
    /\ timer' = IF Handled(exc) = "sleep_exc" THEN ErrorSleep ELSE 0
    /\ todo' = {}
    /\ name' = NoName
    /\ mtime' = 0
    /\ cmd' = <<>>

\* line 137: os.listdir(folder) returns the entries of the folder
ListdirCore ==
    /\ pc = "scan"
    /\ todo' = {n \in Names : fs[n].kind # "none"}
    /\ pc' = "loop"
    /\ UNCHANGED <<fs, name, mtime, printed_files, cmd, timer, cycleSubs>>
    /\ UNCHANGED <<fixedVars, pureVars>>

Listdir == ListdirCore /\ UNCHANGED histVars

\* line 137: os.listdir(folder) raises (the folder is temporarily unavailable)
ListdirRaises ==
    /\ pc = "scan"
    /\ Abort("OSError")
    /\ UNCHANGED <<fs, printed_files, cycleSubs>>
    /\ UNCHANGED <<fixedVars, pureVars, histVars>>

\* lines 137-140: the for loop takes the next entry and tests os.path.isfile
ForNext ==
    /\ pc = "loop"
    /\ \E n \in todo :
        /\ todo' = todo \ {n}
        /\ IF isfile(fs[n])
           THEN /\ pc' = "is_pdf"
                /\ name' = n
           ELSE /\ pc' = "loop"
                /\ name' = NoName
    /\ UNCHANGED <<fs, mtime, printed_files, cmd, timer, cycleSubs>>
    /\ UNCHANGED <<fixedVars, pureVars, histVars>>

\* line 147: the listing is exhausted; time.sleep(5)
ForEnd ==
    /\ pc = "loop"
    /\ todo = {}
    /\ pc' = "sleep"
    /\ timer' = ScanSleep
    /\ UNCHANGED <<fs, todo, name, mtime, printed_files, cmd, cycleSubs>>
    /\ UNCHANGED <<fixedVars, pureVars, histVars>>

\* lines 141-142: is_pdf(path)
IsPdf ==
    /\ pc = "is_pdf"
    /\ LET r == is_pdf_call(PathOf(name), fs[name]) IN
        IF r.raised # NoExc
        THEN Abort(r.raised)
        ELSE /\ pc' = IF r.ret THEN "getmtime" ELSE "loop"
             /\ name' = IF r.ret THEN name ELSE NoName
             /\ UNCHANGED <<todo, mtime, cmd, timer>>
    /\ UNCHANGED <<fs, printed_files, cycleSubs>>
    /\ UNCHANGED <<fixedVars, pureVars, histVars>>

\* lines 143-145: os.path.getmtime(path), the submit decision, and print_pdf
\* up to the start of the lp command
Getmtime ==
    /\ pc = "getmtime"
    /\ GetmtimeExc(fs[name]) = NoExc
    /\ mtime' = fs[name].mtime
    /\ IF NeedsPrint(PathOf(name), fs[name].mtime, printed_files)
       THEN /\ pc' = "printing"
            /\ cmd' = print_pdf_cmd(PathOf(name), opts)
            /\ cycleSubs' = TRUE
            /\ UNCHANGED name
       ELSE /\ pc' = "skip"
            /\ UNCHANGED <<name, cmd, cycleSubs>>
    /\ UNCHANGED <<fs, todo, printed_files, timer>>
    /\ UNCHANGED <<fixedVars, pureVars, histVars>>

\* line 143: os.path.getmtime(path) raises: the file is gone
GetmtimeRaises ==
    /\ pc = "getmtime"
    /\ GetmtimeExc(fs[name]) # NoExc
    /\ Abort(GetmtimeExc(fs[name]))
    /\ UNCHANGED <<fs, printed_files, cycleSubs>>
    /\ UNCHANGED <<fixedVars, pureVars, histVars>>

\* lines 114-122 and 145-146: subprocess.run ends, print_pdf returns, and the
\* loop records the file when it returned True
PrintDoneCore(outcome) ==
    /\ pc = "printing"
    /\ IF RunExc(outcome) # NoExc /\ ~PrintCaught(RunExc(outcome))
       THEN /\ Abort(RunExc(outcome))
            /\ UNCHANGED printed_files
       ELSE /\ printed_files' =
                   AfterPrint(printed_files, PathOf(name), mtime, RunExc(outcome) = NoExc)
            /\ pc' = "done"
            /\ cmd' = <<>>
            /\ UNCHANGED <<todo, name, mtime, timer>>
    /\ UNCHANGED <<fs, cycleSubs>>
    /\ UNCHANGED <<fixedVars, pureVars>>

PrintDone == \E outcome \in RunOutcomes : PrintDoneCore(outcome) /\ UNCHANGED histVars

\* the body of the for loop ends for this entry: the decision of line 144 was
\* false ("skip"), or print_pdf has returned ("done")
EndBody ==
    /\ pc \in {"skip", "done"}
    /\ Continue
    /\ UNCHANGED <<fs, todo, printed_files, timer, cycleSubs>>
    /\ UNCHANGED <<fixedVars, pureVars, histVars>>

\* lines 147 and 150: time.sleep returns; the next cycle begins
Wake ==
    /\ pc \in {"sleep", "sleep_exc"}
    /\ pc' = "scan"
    /\ timer' = 0
    /\ cycleSubs' = FALSE
    /\ UNCHANGED <<fs, todo, name, mtime, printed_files, cmd>>
    /\ UNCHANGED <<fixedVars, pureVars, histVars>>

\* lines 129-131: SIGINT arrives and signal_handler raises SystemExit where
\* the main thread stands: inside the try of print_pdf (line 115), inside the
\* try of watch_folder (lines 137-147), or in its except clause (line 150)
Sigint ==
    /\ pc \notin {"exited", "crashed"}
    /\ sigint' = TRUE
    /\ LET exc == signal_handler_exc IN
        IF pc = "printing" /\ PrintCaught(exc)
        THEN /\ pc' = "done"
             /\ cmd' = <<>>
             /\ UNCHANGED <<todo, name, mtime, timer>>
        ELSE IF pc # "sleep_exc" /\ ScanCaught(exc)
        THEN Abort(exc)
        ELSE /\ pc' = "exited"
             /\ timer' = 0
             /\ todo' = {}
             /\ UNCHANGED <<name, mtime, cmd>>
    /\ UNCHANGED <<fs, printed_files, cycleSubs, opts>>
    /\ UNCHANGED <<pureVars, histVars>>

\* the environment rewrites, touches, removes or replaces an entry
EnvChange ==
    /\ pc \notin {"exited", "crashed"}
    /\ \E n \in Names : \E s \in EnvStates(n) :
        /\ s # fs[n]
        /\ fs' = [fs EXCEPT ![n] = s]
    /\ UNCHANGED <<pc, todo, name, mtime, printed_files, cmd, timer, cycleSubs>>
    /\ UNCHANGED <<fixedVars, pureVars, histVars>>

Next ==
    \/ Listdir
    \/ ListdirRaises
    \/ ForNext
    \/ ForEnd
    \/ IsPdf
    \/ Getmtime
    \/ GetmtimeRaises
    \/ PrintDone
    \/ EndBody
    \/ Wake
    \/ Sigint
    \/ EnvChange

Spec == Init /\ [][Next]_vars

-----------------------------------------------------------------------------
(* The scenarios of one file: a.pdf is rewritten with later modification   *)
(* times, every print_pdf call and every listing is recorded               *)

\* os.listdir returns, and the scan is counted
ListdirCounted ==
    /\ ListdirCore
    /\ cycles < MaxCycles
    /\ cycles' = cycles + 1
    /\ UNCHANGED attempts

\* print_pdf returns, and the call is recorded: the mtime it was made for,
\* what it returned, and the scan it was made in
PrintDoneLogged ==
    \E outcome \in RunOutcomes :
        /\ PrintDoneCore(outcome)
        /\ Len(attempts) < MaxAttempts
        /\ attempts' = Append(attempts,
               [m |-> mtime, ok |-> (RunExc(outcome) = NoExc), c |-> cycles])
        /\ UNCHANGED cycles

\* a.pdf is rewritten: same kind of content, a later modification time
Rewrite ==
    /\ fs[NameA].kind = "file"
    /\ \E m \in Times :
        /\ m > fs[NameA].mtime
        /\ fs' = [fs EXCEPT ![NameA].mtime = m]
    /\ UNCHANGED <<pc, todo, name, mtime, printed_files, cmd, timer, cycleSubs>>
    /\ UNCHANGED <<fixedVars, pureVars, histVars>>

NextHistory ==
    \/ ListdirCounted
    \/ ListdirRaises
    \/ ForNext
    \/ ForEnd
    \/ IsPdf
    \/ Getmtime
    \/ PrintDoneLogged
    \/ EndBody
    \/ Wake
    \/ Rewrite

SpecHistory == Init /\ [][NextHistory]_vars

-----------------------------------------------------------------------------
(* print_pdf's command for every option set *)

\* line 69
duplex_modes == {"one-sided", "two-sided-long-edge", "two-sided-short-edge"}

\* what get_print_options can return (lines 57-88), with a fixed printer
OptionSets ==
    [printer : {"HP"},
     pages : {"", "1-2"},
     copies : 1..MaxCopies,
     duplex : {None} \cup {<<d>> : d \in duplex_modes},
     fit : BOOLEAN,
     media : {None, <<"A4">>, <<"Letter">>}]

InitCmd ==
    /\ fs = ScenarioFs
    /\ opts \in OptionSets
    /\ arg \in {PathOf(n) : n \in Names}
    /\ InitWatch

\* lines 100-111 for the path arg
BuildCmd ==
    /\ cmd = <<>>
    /\ arg # NoArg
    /\ cmd' = print_pdf_cmd(arg, opts)
    /\ UNCHANGED <<fs, pc, todo, name, mtime, printed_files, timer, cycleSubs>>
    /\ UNCHANGED <<fixedVars, pureVars, histVars>>

NextCmd == BuildCmd

SpecCmd == InitCmd /\ [][NextCmd]_vars

-----------------------------------------------------------------------------
(* is_pdf for every short path and every small file *)

PathAlphabet == {".", "p", "d", "F", "x"}

\* the paths of at most MaxNameLen characters
SniffPaths == UNION {[1..k -> PathAlphabet] : k \in 0..MaxNameLen}

\* a document of MaxData bytes that starts with the magic bytes
GoodDoc == [i \in 1..MaxData |-> IF i <= Len(PDF_MAGIC) THEN PDF_MAGIC[i] ELSE "1"]

\* GoodDoc, and GoodDoc with one byte replaced
SniffDocs ==
    {GoodDoc} \cup {[GoodDoc EXCEPT ![i] = b] : i \in 1..MaxData, b \in {"x", "p"}}

\* every prefix of those documents, the empty file included
SniffData == {SubSeq(d, 1, k) : d \in SniffDocs, k \in 0..MaxData}

\* the files is_pdf may meet: none (removed), a directory, a regular file
\* without read permission, a regular file
SniffFiles ==
    {NoFile, [kind |-> "dir", data |-> <<>>, mtime |-> 1],
     [kind |-> "noperm", data |-> GoodDoc, mtime |-> 1]}
    \cup {[kind |-> "file", data |-> d, mtime |-> 1] : d \in SniffData}

\* lines 90-97 for the path and the file of arg
Sniff ==
    /\ out = NoOut
    /\ arg # NoArg
    /\ out' = is_pdf_call(arg.path, arg.file)
    /\ UNCHANGED <<fs, pc, todo, name, mtime, printed_files, cmd, timer, cycleSubs>>
    /\ UNCHANGED <<fixedVars, arg, histVars>>

NextSniff == Sniff

InitSniff ==
    /\ fs = ScenarioFs
    /\ opts = ScenarioOpts
    /\ arg \in [path : SniffPaths, file : SniffFiles]
    /\ InitWatch

SpecSniff == InitSniff /\ [][NextSniff]_vars

-----------------------------------------------------------------------------
(* Properties *)

ScanPcs == {"scan", "loop", "is_pdf", "getmtime", "printing", "skip", "done"}
SleepPcs == {"sleep", "sleep_exc"}

\* a regular file, stated on the file state
Regular(f) == f.kind \in {"file", "noperm"}

\* the path ends in .pdf in any mix of cases, stated character by character
EndsInDotPdf(p) ==
    /\ Len(p) >= 4
    /\ p[Len(p) - 3] = "."
    /\ p[Len(p) - 2] \in {"p", "P"}
    /\ p[Len(p) - 1] \in {"d", "D"}
    /\ p[Len(p)] \in {"f", "F"}

\* the file can be opened and its first 5 bytes are %PDF-
StartsWithMagic(f) ==
    /\ f.kind = "file"
    /\ Len(f.data) >= 5
    /\ f.data[1] = "%" /\ f.data[2] = "P" /\ f.data[3] = "D"
    /\ f.data[4] = "F" /\ f.data[5] = "-"

\* the path has no record, or its record is strictly less than m
Unrecorded(p, m) == p \notin DOMAIN printed_files \/ printed_files[p] < m

\* a step of the program that is not the delivery of SIGINT
ProgramStep == pc' # pc /\ ~sigint'

\* C1: in every scan, for every entry the scan reaches, print_pdf is invoked
\* if and only if the entry is a regular file, is_pdf returns true for it, and
\* its path has no record or a record strictly less than the modification
\* time just read; an entry that is not a regular file or not a printable PDF
\* (b.txt) is never submitted.
C1_SubmitIff ==
    [][ /\ \A n \in todo :
            (pc = "loop" /\ n \notin todo' /\ ~sigint')
                => /\ (pc' = "is_pdf" /\ name' = n) <=> Regular(fs[n])
                   /\ ~Regular(fs[n]) => pc' = "loop"
        /\ (pc = "is_pdf" /\ ProgramStep)
                => /\ pc' = "getmtime" <=>
                          (EndsInDotPdf(PathOf(name)) /\ StartsWithMagic(fs[name]))
                   /\ pc' # "getmtime" => pc' = "loop"
        /\ (pc = "getmtime" /\ ProgramStep)
                => /\ pc' = "printing" <=>
                          /\ fs[name].kind # "none"
                          /\ Unrecorded(PathOf(name), fs[name].mtime)
                   /\ pc' = "printing" => name' = name /\ mtime' = fs[name].mtime
        /\ (pc' = "printing" /\ pc # "printing") => pc = "getmtime"
        /\ pc' = "printing" => name' # NameB /\ EndsInDotPdf(PathOf(name'))
      ]_vars

\* a.pdf is being submitted in a scan that has already passed b.txt
C1_Witness ==
    /\ pc = "printing"
    /\ name = NameA
    /\ fs[NameB].kind = "file"
    /\ NameB \notin todo

\* the attempts recorded so far all failed
AllFailed == \A i \in 1..Len(attempts) : ~attempts[i].ok

C3_Idempotent ==
    [][ /\ ( /\ pc = "getmtime" /\ ProgramStep
             /\ PathOf(name) \in DOMAIN printed_files
             /\ fs[name].kind # "none"
             /\ fs[name].mtime = printed_files[PathOf(name)] )
           => pc' = "skip" /\ printed_files' = printed_files
        /\ pc = "skip" => printed_files' = printed_files /\ pc' # "printing"
      ]_vars

\* the scan has just passed over a file whose mtime is the recorded one
C3_Witness ==
    /\ pc = "skip"
    /\ PathOf(name) \in DOMAIN printed_files
    /\ printed_files[PathOf(name)] = mtime
    /\ fs[name].mtime = mtime

\* C4 as stated: once the history holds a record for the file, every later
\* modification time is submitted exactly once.
C4_ExactlyOnce ==
    \A i \in 1..Len(attempts) : \A j \in 1..Len(attempts) : \A k \in 1..Len(attempts) :
        (i < j /\ j < k /\ attempts[i].ok) => attempts[j].m # attempts[k].m

\* C4, amended: a file whose history records M and that is rewritten with
\* M' > M is resubmitted at the first scan that reads M'; if that submission
\* succeeds the history becomes M' and M' is never submitted again; if it
\* fails the history stays M (and the file is submitted again).
C4_ChangeDetected ==
    /\ \A j \in 1..Len(attempts) : \A k \in 1..Len(attempts) :
          (j < k /\ attempts[j].ok) => attempts[j].m < attempts[k].m
    /\ ~AllFailed =>
          LET last == CHOOSE i \in 1..Len(attempts) :
                         /\ attempts[i].ok
                         /\ \A j \in (i + 1)..Len(attempts) : ~attempts[j].ok
          IN  /\ PathOf(NameA) \in DOMAIN printed_files
              /\ printed_files[PathOf(NameA)] = attempts[last].m
    /\ (pc = "skip" /\ PathOf(name) \in DOMAIN printed_files)
          => mtime <= printed_files[PathOf(name)]
    /\ (pc = "printing" /\ PathOf(name) \in DOMAIN printed_files)
          => mtime > printed_files[PathOf(name)]

\* a.pdf was printed at M, rewritten, and printed again at M' > M
C4_Witness ==
    \E i \in 1..Len(attempts) : \E j \in 1..Len(attempts) :
        /\ i < j
        /\ attempts[i].ok /\ attempts[j].ok
        /\ attempts[j].m > attempts[i].m
        /\ printed_files[PathOf(NameA)] = attempts[j].m
        /\ fs[NameA].mtime = attempts[j].m

\* C5 as stated: a scan that an exception ends has made no submission.
C5_NoOpCycle == pc = "sleep_exc" => ~cycleSubs

\* C5, amended: an exception raised by the listing ends a scan that has made
\* no submission; an exception raised while reading an entry ends the scan
\* there: the step makes no submission and leaves the history unchanged, what
\* earlier entries of the same scan did stands, and the loop sleeps and scans
\* again.
C5_ScanErrorAborts ==
    [][ /\ (pc' = "sleep_exc" /\ pc # "sleep_exc")
               => /\ printed_files' = printed_files
                  /\ cycleSubs' = cycleSubs
                  /\ cmd' = <<>>
                  /\ todo' = {}
                  /\ timer' = SLEEP_SECS
                  /\ pc = "scan" => ~cycleSubs'
        /\ (pc = "scan" /\ ProgramStep) => pc' \in {"loop", "sleep_exc"}
        /\ (pc = "getmtime" /\ ProgramStep /\ fs[name].kind = "none") => pc' = "sleep_exc"
        /\ pc = "sleep_exc"
               => /\ printed_files' = printed_files
                  /\ cmd' = <<>>
                  /\ pc' \in {"sleep_exc", "scan", "exited"}
        /\ printed_files' # printed_files => cycleSubs
      ]_vars

\* a scan that made a submission and was then ended by an exception
C5_Witness == pc = "sleep_exc" /\ cycleSubs /\ timer = SLEEP_SECS

\* C6 as stated: a submission in progress is not interrupted by the signal.
C6_NotInterrupted == [][pc = "printing" => pc' # "exited"]_vars

\* C6, amended: on SIGINT the process exits where it stands, also in the
\* middle of a scan; a submission in progress is abandoned (print_pdf does not
\* return and nothing is recorded for it); after the signal no submission is
\* started and the history is not written.
C6_ExitsAtOnce ==
    [][ /\ (sigint' /\ ~sigint)
               => /\ pc' = "exited"
                  /\ printed_files' = printed_files
                  /\ cmd' = cmd
        /\ sigint => pc' = "exited" /\ printed_files' = printed_files /\ cmd' = cmd
        /\ pc' = "exited" => sigint'
      ]_vars

\* the signal arrived while lp was running for a file
C6_Witness ==
    /\ pc = "exited"
    /\ sigint
    /\ cmd # <<>>
    /\ PathOf(name) \notin DOMAIN printed_files

\* C7: no scan error and no submission error ends the loop: it is scanning or
\* sleeping, every scan, completed or aborted, is followed by one sleep of 5
\* and then another scan, until SIGINT.
C7_LoopGoesOn ==
    [][ /\ pc' \in ScanPcs \cup SleepPcs \cup {"exited"}
        /\ pc' = "exited" => sigint'
        /\ (pc \in ScanPcs /\ pc' \notin ScanPcs /\ ~sigint')
               => pc' \in SleepPcs /\ timer' = 5
        /\ (pc \in SleepPcs /\ ProgramStep) => pc' = "scan" /\ timer' = 0
        /\ (pc = "printing" /\ ProgramStep) => pc' = "done"
        /\ (pc' \in SleepPcs) <=> (timer' = 5)
      ]_vars

\* a scan that an error ended is followed by the sleep
C7_Witness == pc = "sleep_exc" /\ timer = 5 /\ ~sigint

SidesOpts == {"sides=one-sided", "sides=two-sided-long-edge", "sides=two-sided-short-edge"}
MediaOpts == {"media=A4", "media=Letter"}

\* the positions of cmd that hold x
At(x) == {i \in 1..Len(cmd) : cmd[i] = x}

\* the positions of cmd that hold a member of S right after a -o
OptAt(S) == {i \in 2..Len(cmd) : cmd[i] \in S /\ cmd[i - 1] = "-o"}

\* C8: the command names the printer, has the copy-count flag exactly when
\* copies is not 1, the page-range flag exactly when pages is present, the
\* sides option exactly when duplex is present, the fit-to-page option exactly
\* when fit is true, the media option exactly when media is present, and the
\* path last; the scenario's options give all five.
C8_Command ==
    cmd # <<>> =>
        /\ cmd[1] = "lp" /\ cmd[2] = "-d" /\ cmd[3] = opts.printer
        /\ At("-n") # {} <=> opts.copies # 1
        /\ \A i \in At("-n") : i < Len(cmd) /\ cmd[i + 1] = str(opts.copies)
        /\ At("-P") # {} <=> opts.pages # ""
        /\ \A i \in At("-P") : i < Len(cmd) /\ cmd[i + 1] = opts.pages
        /\ OptAt(SidesOpts) # {} <=> opts.duplex # None
        /\ \A i \in OptAt(SidesOpts) : cmd[i] = "sides=" \o opts.duplex[1]
        /\ OptAt({"fit-to-page"}) # {} <=> opts.fit
        /\ OptAt(MediaOpts) # {} <=> opts.media # None
        /\ \A i \in OptAt(MediaOpts) : cmd[i] = "media=" \o opts.media[1]
        /\ Cardinality(At("-n")) <= 1 /\ Cardinality(At("-P")) <= 1
        /\ Cardinality(At("-o")) =
               Cardinality(OptAt(SidesOpts) \cup OptAt({"fit-to-page"}) \cup OptAt(MediaOpts))
        /\ Len(cmd) = 4 + 2 * (Cardinality(At("-n")) + Cardinality(At("-P"))
                                 + Cardinality(At("-o")))
        /\ cmd[Len(cmd)] = ToStr(arg)
        /\ (opts = ScenarioOpts /\ arg = PathOf(NameA)) =>
               cmd = <<"lp", "-d", "HP", "-n", "3", "-P", "1-2",
                       "-o", "sides=two-sided-long-edge", "-o", "fit-to-page",
                       "-o", "media=A4", "/w/a.pdf">>

\* the command of the scenario's options has been built
C8_Witness == cmd # <<>> /\ opts = ScenarioOpts /\ arg = PathOf(NameA)

\* C9: is_pdf returns true if and only if the path ends in .pdf in any mix of
\* cases and the file can be opened and starts with %PDF-; without the suffix
\* it returns false without opening the file; for an empty, unreadable,
\* removed or non-regular file it returns false; it never raises.
C9_Sniffer ==
    out # NoOut =>
        /\ out.ret <=> (EndsInDotPdf(arg.path) /\ StartsWithMagic(arg.file))
        /\ ~EndsInDotPdf(arg.path) => ~out.ret /\ ~out.opened
        /\ EndsInDotPdf(arg.path) => out.opened
        /\ (arg.file.kind # "file" \/ arg.file.data = <<>>) => ~out.ret
        /\ out.raised = NoExc

\* is_pdf has accepted a path whose suffix is not all lower case
C9_Witness ==
    /\ out # NoOut
    /\ out.ret
    /\ arg.path[Len(arg.path)] = "F"

\* C10: the timestamp recorded after a successful submission is the mtime
\* read before the submission started; if the file's mtime has increased
\* meanwhile, the record is strictly less than it and the next scan that
\* reads it submits the file again.
C10_RecordsReadMtime ==
    [][ /\ (pc = "printing" /\ printed_files' # printed_files)
               => /\ PathOf(name) \in DOMAIN printed_files'
                  /\ printed_files'[PathOf(name)] = mtime
                  /\ \A p \in DOMAIN printed_files :
                        p # PathOf(name) => printed_files'[p] = printed_files[p]
                  /\ fs[name].mtime > mtime
                        => printed_files'[PathOf(name)] < fs'[name].mtime
        /\ pc = "printing" => mtime' = mtime /\ name' = name
        /\ ( /\ pc = "getmtime" /\ ProgramStep
             /\ PathOf(name) \in DOMAIN printed_files
             /\ fs[name].kind # "none"
             /\ fs[name].mtime > printed_files[PathOf(name)] )
           => pc' = "printing" /\ mtime' = fs[name].mtime
      ]_vars

\* a submission has succeeded for a file whose mtime is now later than the
\* one recorded
C10_Witness ==
    /\ pc = "done"
    /\ PathOf(name) \in DOMAIN printed_files
    /\ printed_files[PathOf(name)] = mtime
    /\ fs[name].kind = "file"
    /\ fs[name].mtime > mtime

=============================================================================
